---- MODULE Spec2Model ----
(***************************************************************************)
(* Model of the navigation-mapping resolver, of the loading of App and of  *)
(* SimplePage (src/src/App.js) and of the listing query-string codec       *)
(* (src/src/utils/queryString.js).                                         *)
(*                                                                         *)
(* Strings the code takes apart or builds (slugs, paths, query strings)    *)
(* are sequences of one-character strings; opaque identifiers (codenames,  *)
(* type codenames) are TLA+ strings.  A nullable value is <<>> (null) or   *)
(* <<v>>.                                                                  *)
(***************************************************************************)
EXTENDS Integers, Sequences, FiniteSets, TLC

VARIABLES
    status,             \* useQuery state of the home query: loading / error / done
    data,               \* the home query's result, <<>> until it completes
    mappings,           \* useState(null) in App
    siteConfiguration,  \* useState(null) in App
    homepageSeo,        \* useState(null) in App
    nodeEnv,            \* process.env.NODE_ENV of the build
    location,           \* the router's location: [pathname, search]
    rendered,           \* what App returned for the current location
    mappingErrors,      \* what getMappings wrote with console.error, in order
    simplePage          \* the mounted SimplePage: <<>> when App renders none

vars == <<status, data, mappings, siteConfiguration, homepageSeo, nodeEnv, location, rendered,
          mappingErrors, simplePage>>

appVars == <<status, data, mappings, siteConfiguration, homepageSeo, mappingErrors>>

----------------------------------------------------------------------------
(* Bounds *)

\* total number of items of a query result: top-level items, second-level
\* items and collection items together
MaxItems == 3

\* the same, for the sites whose pages are routed and rendered
MaxRouteItems == 2

\* the same, for the sites that are loaded one state change at a time
MaxLoadItems == 1

Null == <<>>

Some(x) == <<x>>

Undefined == "undefined"

----------------------------------------------------------------------------
(* Strings *)

\* Array.prototype.join(sep) on an array of strings
RECURSIVE Join(_, _)
Join(parts, sep) ==
    IF Len(parts) = 0 THEN <<>>
    ELSE IF Len(parts) = 1 THEN parts[1]
    ELSE parts[1] \o sep \o Join(Tail(parts), sep)

\* the slugs an editor can give an item; a slug may be left empty
Slugs == { <<>>, <<"a">>, <<"b">> }

\* pathname of the router's location for the path made of the given slugs
PathName(slugs) == <<"/">> \o Join(slugs, <<"/">>)

----------------------------------------------------------------------------
(* The home query's result: HomePageQuery, App.js 24-109 *)

\* content of the homepage (homepage.content): the query asks for the system
\* fields of a landing page
HomeContents ==
    { [type |-> "landing_page", contentType |-> Undefined] }

\* renderPage and SimplePage also serve a homepage whose content is a page of
\* another type; routing is checked for these homepages too
RouteHomeContents ==
    HomeContents \cup
    { [type |-> "simple_page",  contentType |-> Undefined],
      [type |-> "listing_page", contentType |-> "post"] }

\* content of a top-level navigation item; a listing page names the content
\* type it lists, and the query fetches the collection post_All only
TopContents ==
    { [type |-> "landing_page", contentType |-> Undefined],
      [type |-> "listing_page", contentType |-> "post"],
      [type |-> "listing_page", contentType |-> "event"],
      [type |-> "form",         contentType |-> Undefined] }

\* content of a second-level navigation item
SubContents ==
    { [type |-> "simple_page",  contentType |-> Undefined],
      [type |-> "listing_page", contentType |-> "post"] }

\* The items of a site in document order: a top-level item is followed by
\* its second-level items, and the items of the collection come last.
Nodes ==
    [ level : { "top" }, slug : Slugs, content : TopContents ]
    \cup [ level : { "sub" }, slug : Slugs, content : SubContents ]
    \cup [ level : { "post" }, slug : Slugs,
           content : { [type |-> "post", contentType |-> Undefined] } ]

WellFormed(nodes) ==
    \A i \in DOMAIN nodes :
        IF i = 1 THEN nodes[i].level # "sub"
        ELSE nodes[i - 1].level = "post" => nodes[i].level = "post"

\* an item of subpages.items (SubpageNavigationItemFields): codenames are
\* unique per item, here made from the item's place in the document
NavigationItem(slug, id, content, subpages) ==
    [ slug     |-> slug,
      codename |-> "nav_" \o id,
      type     |-> "navigation_item",
      content  |-> [ codename    |-> "page_" \o id,
                     type        |-> content.type,
                     contentType |-> content.contentType ],
      subpages |-> subpages ]

\* an item of post_All.items: slug and _system_ only, no content
PostItem(slug, id) ==
    [ slug |-> slug, codename |-> "post_" \o id, type |-> "post" ]

\* the places of the nodes of a level, in order
RECURSIVE Places(_, _, _)
Places(nodes, level, from) ==
    IF from > Len(nodes) THEN <<>>
    ELSE IF nodes[from].level = level THEN <<from>> \o Places(nodes, level, from + 1)
    ELSE Places(nodes, level, from + 1)

\* the places of the second-level items that follow the top-level item at i
RECURSIVE SubPlaces(_, _)
SubPlaces(nodes, i) ==
    IF i + 1 > Len(nodes) \/ nodes[i + 1].level # "sub" THEN <<>>
    ELSE <<i + 1>> \o SubPlaces(nodes, i + 1)

\* the query result for a homepage content and well-formed nodes
DataOf(home, nodes) ==
    LET tops  == Places(nodes, "top", 1)
        posts == Places(nodes, "post", 1)
        subItems(i) ==
            LET subs == SubPlaces(nodes, i)
            IN  [ j \in DOMAIN subs |->
                    NavigationItem(nodes[subs[j]].slug, ToString(subs[j]),
                                   nodes[subs[j]].content, <<>>) ]
    IN  [ homepage |->
            [ title    |-> "site",
              seo      |-> [ title |-> "home" ],
              content  |-> [ codename    |-> "home_page",
                             type        |-> home.type,
                             contentType |-> home.contentType ],
              subpages |->
                [ t \in DOMAIN tops |->
                    NavigationItem(nodes[tops[t]].slug, ToString(tops[t]),
                                   nodes[tops[t]].content, subItems(tops[t])) ] ],
          collections |->
            [ post_All |->
                [ k \in DOMAIN posts |->
                    PostItem(nodes[posts[k]].slug, ToString(posts[k])) ] ] ]

----------------------------------------------------------------------------
(* The navigation-mapping resolver *)

homepageCodename == "homepage"

\* variant: a navigation item's contentCodename is taken from the item
\* itself instead of from its linked content
getNavigationDataNamingContentAfterItem(parrentSlug, item) ==
    IF item.type = "post"
    THEN [ slug               |-> Append(parrentSlug, item.slug),
           navigationType     |-> "post",
           navigationCodename |-> item.codename,
           contentCodename    |-> item.codename,
           contentType        |-> item.type ]
    ELSE [ slug               |-> Append(parrentSlug, item.slug),
           navigationType     |-> "navigationItem",
           navigationCodename |-> item.codename,
           contentCodename    |-> item.codename,
           contentType        |-> item.content.type ]

getNavigationData(parrentSlug, item) ==
    IF item.type = "post"
    THEN [ slug               |-> Append(parrentSlug, item.slug),
           navigationType     |-> "post",
           navigationCodename |-> item.codename,
           contentCodename    |-> item.codename,
           contentType        |-> item.type ]
    ELSE [ slug               |-> Append(parrentSlug, item.slug),
           navigationType     |-> "navigationItem",
           navigationCodename |-> item.codename,
           contentCodename    |-> item.content.codename,
           contentType        |-> item.content.type ]

\* items.map(subItem => getNavigationData(slug, subItem))
MapNavigationData(slug, items) ==
    [ i \in DOMAIN items |-> getNavigationData(slug, items[i]) ]

\* data[`${content.contentType}_All`]: the collection, or <<>> when the
\* query result has no such field
ListingData(d, content) ==
    LET key == content.contentType \o "_All"
    IN  IF key \in DOMAIN d.collections THEN Some(d.collections[key]) ELSE Null

\* variant: the collection is mapped under the second-level listing pages
\* as well
WalkItemListingSubpages(d, item) ==
    LET navigationData == getNavigationData(<<>>, item)
        collection(page, slug) ==
            IF page.content.type = "listing_page" /\ ListingData(d, page.content) # Null
            THEN MapNavigationData(slug, ListingData(d, page.content)[1])
            ELSE <<>>
        subData == MapNavigationData(navigationData.slug, item.subpages)
        RECURSIVE under(_)
        under(j) ==
            IF j > Len(item.subpages) THEN <<>>
            ELSE collection(item.subpages[j], subData[j].slug) \o under(j + 1)
    IN  <<navigationData>> \o subData \o collection(item, navigationData.slug) \o under(1)

\* the body of the forEach over homepage.subpages.items: what one item pushes
WalkItem(d, item) ==
    LET navigationData == getNavigationData(<<>>, item)
        content        == item.content
        listingData    == ListingData(d, content)
    IN  <<navigationData>>
        \o MapNavigationData(navigationData.slug, item.subpages)
        \o ( IF content.type = "listing_page" /\ listingData # Null
             THEN MapNavigationData(navigationData.slug, listingData[1])
             ELSE <<>> )

\* what the body of the forEach writes to the console for one item
WalkItemErrors(d, item) ==
    IF item.content.type = "listing_page" /\ ListingData(d, item.content) = Null
    THEN << "Unknown listing page content type: " \o item.content.contentType >>
    ELSE <<>>

\* variant: the walk ends at an item whose collection was not fetched
RECURSIVE WalkItemsUntilUnknownListing(_, _)
WalkItemsUntilUnknownListing(d, items) ==
    IF Len(items) = 0 THEN <<>>
    ELSE IF WalkItemErrors(d, Head(items)) # <<>> THEN WalkItem(d, Head(items))
    ELSE WalkItem(d, Head(items)) \o WalkItemsUntilUnknownListing(d, Tail(items))

RECURSIVE WalkItems(_, _)
WalkItems(d, items) ==
    IF Len(items) = 0 THEN <<>>
    ELSE WalkItem(d, Head(items)) \o WalkItems(d, Tail(items))

\* the array `mappings` of getMappings before it is reduced to the table
MappingList(d) ==
    << [ slug               |-> <<>>,
         navigationCodename |-> homepageCodename,
         navigationType     |-> "homepage",
         contentCodename    |-> d.homepage.content.codename,
         contentType        |-> d.homepage.content.type ] >>
    \o WalkItems(d, d.homepage.subpages)

\* [].concat(item.slug).join("/")
PathKey(slug) == Join(slug, <<"/">>)

Entry(item) ==
    [ navigationCodename |-> item.navigationCodename,
      navigationType     |-> item.navigationType,
      contentCodename    |-> item.contentCodename,
      contentType        |-> item.contentType ]

\* mappings.reduce((result, item) => { result[key] = entry; return result }, {}):
\* a later item of the array replaces an earlier one stored under the same key
ReduceToTable(list) ==
    [ k \in { PathKey(list[i].slug) : i \in DOMAIN list } |->
        LET last == CHOOSE i \in DOMAIN list :
                        /\ PathKey(list[i].slug) = k
                        /\ \A j \in DOMAIN list : PathKey(list[j].slug) = k => j <= i
        IN  Entry(list[last]) ]

getMappings(d) == ReduceToTable(MappingList(d))

\* the console.error calls of one getMappings(d), in the order of the walk
RECURSIVE WalkErrors(_, _)
WalkErrors(d, items) ==
    IF Len(items) = 0 THEN <<>>
    ELSE WalkItemErrors(d, Head(items)) \o WalkErrors(d, Tail(items))

getMappingsErrors(d) == WalkErrors(d, d.homepage.subpages)

----------------------------------------------------------------------------
(* The query-string codec: queryString.js *)

pageSize == 3

authorQueryStringKey == <<"a", "u", "t", "h", "o", "r">>

languageQueryStringKey == <<"l", "a", "n", "g">>

pageQueryStringKey == <<"p", "a", "g", "e">>

\* index of the first c in s, 0 when there is none
RECURSIVE IndexOf(_, _, _)
IndexOf(s, c, from) ==
    IF from > Len(s) THEN 0
    ELSE IF s[from] = c THEN from
    ELSE IndexOf(s, c, from + 1)

\* String.prototype.split on a one-character separator
RECURSIVE Split(_, _)
Split(s, c) ==
    LET i == IndexOf(s, c, 1)
    IN  IF i = 0 THEN <<s>>
        ELSE <<SubSeq(s, 1, i - 1)>> \o Split(SubSeq(s, i + 1, Len(s)), c)

\* the characters the form-urlencoded serializer leaves as they are
Unreserved ==
    { "a", "b", "e", "g", "h", "l", "n", "o", "p", "r", "t", "u", "x", "y",
      "0", "1", "2", "3", "4", "5", "6", "7", "8", "9", "-" }

\* the percent codes of the other characters of the model's alphabet
PercentCode ==
    [ c \in { "=", "&", "?", "+", "/", "%" } |->
        CASE c = "=" -> <<"%", "3", "D">>
          [] c = "&" -> <<"%", "2", "6">>
          [] c = "?" -> <<"%", "3", "F">>
          [] c = "+" -> <<"%", "2", "B">>
          [] c = "/" -> <<"%", "2", "F">>
          [] c = "%" -> <<"%", "2", "5">> ]

\* form-urlencoded byte serializer: space becomes +, unreserved characters
\* stay, anything else is percent-encoded
RECURSIVE UrlEncode(_)
UrlEncode(s) ==
    IF Len(s) = 0 THEN <<>>
    ELSE ( IF Head(s) = " " THEN <<"+">>
           ELSE IF Head(s) \in Unreserved THEN <<Head(s)>>
           ELSE PercentCode[Head(s)] ) \o UrlEncode(Tail(s))

\* form-urlencoded decoding: + becomes space, %XX becomes its character
RECURSIVE UrlDecode(_)
UrlDecode(s) ==
    IF Len(s) = 0 THEN <<>>
    ELSE IF Head(s) = "+" THEN <<" ">> \o UrlDecode(Tail(s))
    ELSE IF /\ Head(s) = "%"
            /\ Len(s) >= 3
            /\ \E c \in DOMAIN PercentCode : PercentCode[c] = SubSeq(s, 1, 3)
         THEN << CHOOSE c \in DOMAIN PercentCode : PercentCode[c] = SubSeq(s, 1, 3) >>
              \o UrlDecode(SubSeq(s, 4, Len(s)))
    ELSE <<Head(s)>> \o UrlDecode(Tail(s))

\* one name=value piece of a query string
ParsePair(piece) ==
    LET i == IndexOf(piece, "=", 1)
    IN  IF i = 0
        THEN [ name |-> UrlDecode(piece), value |-> <<>> ]
        ELSE [ name  |-> UrlDecode(SubSeq(piece, 1, i - 1)),
               value |-> UrlDecode(SubSeq(piece, i + 1, Len(piece))) ]

\* new URLSearchParams(search): a leading ? is dropped, the rest is split on &,
\* empty pieces are skipped; the result is the list of name/value pairs
URLSearchParams(search) ==
    LET body   == IF Len(search) > 0 /\ search[1] = "?" THEN Tail(search) ELSE search
        pieces == SelectSeq(Split(body, "&"), LAMBDA piece : Len(piece) > 0)
    IN  [ i \in DOMAIN pieces |-> ParsePair(pieces[i]) ]

\* urlParams.get(key): the value of the first pair of that name, or null
ParamsGet(params, key) ==
    IF \E i \in DOMAIN params : params[i].name = key
    THEN Some(params[CHOOSE i \in DOMAIN params :
                        /\ params[i].name = key
                        /\ \A j \in DOMAIN params : params[j].name = key => i <= j].value)
    ELSE Null

\* urlParams.delete(key): every pair of that name goes
ParamsDelete(params, key) == SelectSeq(params, LAMBDA pair : pair.name # key)

\* variant: urlParams.append in place of urlParams.set
ParamsAppend(params, key, value) == Append(params, [ name |-> key, value |-> value ])

\* urlParams.set(key, value): the first pair of that name takes the value and
\* the others of that name go; without such a pair one is appended
ParamsSet(params, key, value) ==
    IF \E i \in DOMAIN params : params[i].name = key
    THEN LET first == CHOOSE i \in DOMAIN params :
                          /\ params[i].name = key
                          /\ \A j \in DOMAIN params : params[j].name = key => i <= j
         IN  SubSeq(params, 1, first - 1)
             \o << [ name |-> key, value |-> value ] >>
             \o ParamsDelete(SubSeq(params, first + 1, Len(params)), key)
    ELSE Append(params, [ name |-> key, value |-> value ])

\* `${urlParams}`: name=value pieces joined by &
ParamsToString(params) ==
    Join([ i \in DOMAIN params |->
             UrlEncode(params[i].name) \o <<"=">> \o UrlEncode(params[i].value) ],
         <<"&">>)

Digits == <<"0", "1", "2", "3", "4", "5", "6", "7", "8", "9">>

DigitValue(c) == (CHOOSE i \in DOMAIN Digits : Digits[i] = c) - 1

IsDigit(c) == \E i \in DOMAIN Digits : Digits[i] = c

\* String(n) for an integer n
RECURSIVE NumberToString(_)
NumberToString(n) ==
    IF n < 0 THEN <<"-">> \o NumberToString(-n)
    ELSE IF n < 10 THEN <<Digits[n + 1]>>
    ELSE NumberToString(n \div 10) \o <<Digits[(n % 10) + 1]>>

\* value of the longest prefix of digits of s, given the value read so far
RECURSIVE DigitsPrefix(_, _)
DigitsPrefix(s, acc) ==
    IF Len(s) = 0 \/ ~IsDigit(Head(s)) THEN acc
    ELSE DigitsPrefix(Tail(s), acc * 10 + DigitValue(Head(s)))

RECURSIVE TrimStart(_)
TrimStart(s) == IF Len(s) > 0 /\ Head(s) = " " THEN TrimStart(Tail(s)) ELSE s

\* parseInt(q) without a radix, q a string or null: leading blanks are
\* skipped, a sign is read, then the longest prefix of digits; <<>> is NaN
\* (null reads as the string "null", which has no digits).  No query string
\* of the model holds a 0x prefix, which would select radix 16.
parseInt(q) ==
    IF q = Null THEN Null
    ELSE LET s        == TrimStart(q[1])
             signed   == Len(s) > 0 /\ s[1] \in { "-", "+" }
             negative == Len(s) > 0 /\ s[1] = "-"
             rest     == IF signed THEN Tail(s) ELSE s
         IN  IF Len(rest) = 0 \/ ~IsDigit(rest[1]) THEN Null
             ELSE Some((IF negative THEN -1 ELSE 1) * DigitsPrefix(rest, 0))

\* variant: the page is written without the page > 0 test
setPageUnchecked(page, urlParams) ==
    LET changed == ParamsSet(urlParams, pageQueryStringKey, NumberToString(page))
    IN  [ urlParams |-> changed, queryString |-> <<"?">> \o ParamsToString(changed) ]

\* setPageAndReturnQueryString(page, urlParams): urlParams is changed in
\* place, so the changed parameters are returned with the string
setPageAndReturnQueryString(page, urlParams) ==
    LET changed == ParamsSet(urlParams, pageQueryStringKey,
                             NumberToString(IF page > 0 THEN page ELSE 1))
    IN  [ urlParams |-> changed, queryString |-> <<"?">> \o ParamsToString(changed) ]

\* variant: the offset counts the current page too
OffsetOfPageNumber(pageNumber) == pageNumber * pageSize

\* offset of getListingPaginationAndFilter
Offset(pageNumber) == (pageNumber - 1) * pageSize

\* pageNumber of getListingPaginationAndFilter
PageNumber(loc) ==
    LET parsed == parseInt(ParamsGet(URLSearchParams(loc.search), pageQueryStringKey))
    IN  IF parsed # Null /\ parsed[1] > 0 THEN parsed[1] ELSE 1

getListingPaginationAndFilter(loc) ==
    LET urlParams   == URLSearchParams(loc.search)
        authorQuery == ParamsGet(urlParams, authorQueryStringKey)
        pageNumber  == PageNumber(loc)
        next        == setPageAndReturnQueryString(pageNumber + 1, urlParams)
        prev        == setPageAndReturnQueryString(pageNumber - 1, next.urlParams)
    IN  [ author   |-> authorQuery,
          nextPage |-> loc.pathname \o next.queryString,
          prevPage |-> loc.pathname \o prev.queryString,
          limit    |-> pageSize,
          offset   |-> Offset(pageNumber) ]

getParameter(loc, key) ==
    LET value == ParamsGet(URLSearchParams(loc.search), key)
    IN  IF value = Null THEN <<>> ELSE value[1]

\* variant: an empty value is written as the key's value
setParameterKeepingEmpty(loc, key, value) ==
    LET urlParams == URLSearchParams(loc.search)
        changed   == ParamsSet(urlParams, key, value)
    IN  [ pathname |-> loc.pathname, search |-> <<"?">> \o ParamsToString(changed) ]

\* variant: a changed filter starts at the first page again
setParameterResettingPage(loc, key, value) ==
    LET urlParams == ParamsDelete(URLSearchParams(loc.search), pageQueryStringKey)
        changed   == IF Len(value) = 0 THEN ParamsDelete(urlParams, key)
                     ELSE ParamsSet(urlParams, key, value)
    IN  [ pathname |-> loc.pathname, search |-> <<"?">> \o ParamsToString(changed) ]

\* value is a string, or <<>> for a missing one: both are falsy when empty
setParameter(loc, key, value) ==
    LET urlParams == URLSearchParams(loc.search)
        changed   == IF Len(value) = 0 THEN ParamsDelete(urlParams, key)
                     ELSE ParamsSet(urlParams, key, value)
    IN  [ pathname |-> loc.pathname, search |-> <<"?">> \o ParamsToString(changed) ]

setAuthor(loc, author) == setParameter(loc, authorQueryStringKey, author)

getAuthor(loc) == getParameter(loc, authorQueryStringKey)

setLanguage(loc, language) == setParameter(loc, languageQueryStringKey, language)

getLanguage(loc) == getParameter(loc, languageQueryStringKey)

\* the location a link leads to: the router cuts the link at its first ?
LinkLocation(link) ==
    LET i == IndexOf(link, "?", 1)
    IN  IF i = 0 THEN [ pathname |-> link, search |-> <<>> ]
        ELSE [ pathname |-> SubSeq(link, 1, i - 1), search |-> SubSeq(link, i, Len(link)) ]

----------------------------------------------------------------------------
(* App: the home query, the three pieces of state and renderPage *)

getSiteConfiguration(d) == [ title |-> d.homepage.title ]

\* ./utils/getSeo
getSeo(seo) == [ title |-> seo.title ]

\* ./utils getUrlFromMappingByPathName: the entry stored under the pathname
\* without its leading slash, or <<>> when the table has none
getUrlFromMappingByPathName(table, pathname) ==
    LET key == IF Len(pathname) > 0 /\ pathname[1] = "/" THEN Tail(pathname) ELSE pathname
    IN  IF key \in DOMAIN table THEN Some(table[key]) ELSE Null

Output(component, codename, seo, listing) ==
    [ component |-> component, codename |-> codename, seo |-> seo, listing |-> listing ]

GraphQLLoader == Output("GraphQLLoader", Null, Null, Null)

\* a || b on codenames: the empty string is falsy, as is a missing one
OrElse(a, b) == IF a # Null /\ a[1] # "" THEN a[1] ELSE b

\* variant: the switch has no case for simple_page
ComponentWithoutSimplePage(contentType, env) ==
    CASE contentType = "landing_page" -> "LandingPage"
      [] contentType = "listing_page" -> "ListingPage"
      [] contentType = "post"         -> "Post"
      [] OTHER -> IF env = "development" THEN "UnknownComponent" ELSE "null"

\* the component the switch on navigationItem.contentType returns
ComponentFor(contentType, env) ==
    CASE contentType = "landing_page" -> "LandingPage"
      [] contentType = "listing_page" -> "ListingPage"
      [] contentType = "simple_page"  -> "SimplePage"
      [] contentType = "post"         -> "Post"
      [] OTHER -> IF env = "development" THEN "UnknownComponent" ELSE "null"

\* variant: ListingPage takes pageProps["codename"] like the other pages
CodenameFromPagePropsAlways(component, propsCodename, navigationItem) ==
    CASE component \in { "LandingPage", "SimplePage", "ListingPage" } ->
             OrElse(propsCodename, navigationItem.navigationCodename)
      [] component = "Post" -> navigationItem.contentCodename

\* the codename prop of each renderer, given pageProps["codename"]
CodenameFor(component, propsCodename, navigationItem) ==
    CASE component \in { "LandingPage", "SimplePage" } ->
             OrElse(propsCodename, navigationItem.navigationCodename)
      [] component = "ListingPage" -> navigationItem.navigationCodename
      [] component = "Post" -> navigationItem.contentCodename

Renderers == { "LandingPage", "ListingPage", "SimplePage", "Post" }

renderPage(table, seo, env, loc) ==
    LET found == getUrlFromMappingByPathName(table, loc.pathname)
    IN  IF found = Null THEN Output("NotFound", Null, Null, Null)
        ELSE
        LET navigationItem == found[1]
            isHomepage     == navigationItem.navigationType = "homepage"
            propsSeo       == IF isHomepage THEN seo ELSE Null
            propsCodename  == IF isHomepage THEN Some(navigationItem.contentCodename) ELSE Null
            component      == ComponentFor(navigationItem.contentType, env)
        IN  IF component \in Renderers
            THEN Output(component,
                        Some(CodenameFor(component, propsCodename, navigationItem)),
                        propsSeo,
                        IF component = "ListingPage"
                        THEN Some(getListingPaginationAndFilter(loc)) ELSE Null)
            ELSE Output(component, Null, Null, Null)

\* variant: App waits for the mapping table only
AppRenderAfterMappings(st, table, config, seo, env, loc) ==
    IF st = "error" \/ st = "loading" \/ table = Null
    THEN GraphQLLoader
    ELSE renderPage(table[1], seo, env, loc)

\* what App returns: the loader, or the router's single route rendering the page
AppRender(st, table, config, seo, env, loc) ==
    IF st = "error" \/ st = "loading" \/ table = Null \/ config = Null \/ seo = Null
    THEN GraphQLLoader
    ELSE renderPage(table[1], seo, env, loc)

----------------------------------------------------------------------------
(* SimplePage: App.js 323-395 *)

\* object.field in JavaScript: <<>> is undefined
Get(object, field) == IF field \in DOMAIN object THEN Some(object[field]) ELSE Null

simplePageQuery == "SimplePageQuery"

navigationAndSimplePageQuery == "NavigationAndSimplePageQuery"

\* the props renderPage hands to SimplePage that SimplePage itself reads:
\* codename, and seo for the homepage only
PropsOf(out) ==
    IF out.seo = Null THEN [ codename |-> out.codename[1] ]
    ELSE [ codename |-> out.codename[1], seo |-> out.seo[1] ]

\* props.seo ? simplePageQuery : navigationAndSimplePageQuery
SelectedQuery(props) ==
    IF Get(props, "seo") # Null THEN simplePageQuery ELSE navigationAndSimplePageQuery

\* the fields of the data each query returns, by their path
ReturnedFields(query) ==
    IF query = simplePageQuery THEN { "simplePage" }
    ELSE { "navigationItem", "navigationItem._seo", "navigationItem.content" }

\* the data of a completed query: the selection set of the query, filled in
\* for the item of the codename
QueryResult(query, codename) ==
    IF query = simplePageQuery
    THEN [ simplePage |-> [ title |-> codename ] ]
    ELSE [ navigationItem |-> ( "_seo" :> [ title |-> codename ]
                                @@ "content" :> [ title |-> codename ] ) ]

\* useState({}) of seo, and what setSeo is given: the prop, or getSeo of what
\* was read from the data
InitialSeo == [ source |-> "useState", argument |-> Null ]

\* the onCompleted callback of SimplePage: the values it stores, the paths
\* of the data it reads, and whether it throws on a property of undefined
simplePageOnCompleted(current, props, d) ==
    IF Get(props, "_seo") # Null
    THEN [ page  |-> Get(d, "simplePage"),
           seo   |-> [ source |-> "props", argument |-> Get(props, "seo") ],
           reads |-> { "simplePage" },
           threw |-> FALSE ]
    ELSE LET navigationItem == Get(d, "navigationItem")
         IN  IF navigationItem = Null
             THEN [ page  |-> current.page,
                    seo   |-> current.seo,
                    reads |-> { "navigationItem" },
                    threw |-> TRUE ]
             ELSE [ page  |-> Get(navigationItem[1], "content"),
                    seo   |-> [ source   |-> "getSeo",
                                argument |-> Get(navigationItem[1], "seo") ],
                    reads |-> { "navigationItem", "navigationItem.content",
                                "navigationItem.seo" },
                    threw |-> FALSE ]

\* what SimplePage returns
SimplePageRender(st, page) ==
    IF st = "error" \/ st = "loading" \/ page = Null THEN "GraphQLLoader" ELSE "Layout"

\* the SimplePage of App's output: none, the one already there when its
\* props are the same, or one whose query starts; the state of a SimplePage
\* that stays mounted is kept
MountSimplePage(current, out) ==
    IF out.component # "SimplePage" THEN Null
    ELSE IF current # Null /\ current[1].props = PropsOf(out) THEN current
    ELSE Some([ props  |-> PropsOf(out),
                query  |-> SelectedQuery(PropsOf(out)),
                status |-> "loading",
                data   |-> Null,
                page   |-> IF current = Null THEN Null ELSE current[1].page,
                seo    |-> IF current = Null THEN InitialSeo ELSE current[1].seo,
                reads  |-> {},
                threw  |-> FALSE,
                output |-> "GraphQLLoader" ])

----------------------------------------------------------------------------
(* Locations *)

\* pathnames of up to two slugs
PathNames ==
    { PathName(p) : p \in UNION { [1..n -> Slugs] : n \in 0..2 } }

PlainLocations == [ pathname : PathNames, search : { <<>> } ]

\* most pairs a query string typed into the address bar holds
MaxParams == 2

\* FollowNextPage stops at this page
MaxPage == 11

\* page values: empty, zero, one, nine, negative, digits followed by a letter
RawPages == { <<>>, <<"0">>, <<"1">>, <<"9">>, <<"-", "1">>, <<"2", "x">> }

RawAuthors == { <<"x">>, <<"x", "+", "y">> }

RawLanguages == { <<"e", "n">> }

RawPairs ==
    { pageQueryStringKey \o <<"=">> \o v : v \in RawPages }
    \cup { authorQueryStringKey \o <<"=">> \o v : v \in RawAuthors }
    \cup { languageQueryStringKey \o <<"=">> \o v : v \in RawLanguages }

Searches ==
    { <<>> } \cup
    { <<"?">> \o Join(ps, <<"&">>) : ps \in UNION { [1..n -> RawPairs] : n \in 1..MaxParams } }

\* the listing page of ListingSite and the query strings it is opened with
ListingLocations == [ pathname : { PathName(<< <<"a">> >>) }, search : Searches ]

\* the query strings the filters are tried on: one page value, since the
\* filters do not read the page
FilterRawPairs ==
    { pageQueryStringKey \o <<"=", "9">> }
    \cup { authorQueryStringKey \o <<"=">> \o v : v \in RawAuthors }
    \cup { languageQueryStringKey \o <<"=">> \o v : v \in RawLanguages }

FilterLocations ==
    [ pathname : { PathName(<< <<"a">> >>) },
      search   : { <<>> } \cup
                 { <<"?">> \o Join(ps, <<"&">>)
                   : ps \in UNION { [1..n -> FilterRawPairs] : n \in 1..MaxParams } } ]

\* values the author and language filters offer; <<>> clears the filter
FilterValues == { <<>>, <<"x">>, <<"x", " ", "y">>, <<"e", "n">> }

\* a site with one listing page /a over the posts and one post /a/b
ListingSite ==
    DataOf([type |-> "landing_page", contentType |-> Undefined],
           << [ level |-> "top", slug |-> <<"a">>,
                content |-> [type |-> "listing_page", contentType |-> "post"] ],
              [ level |-> "post", slug |-> <<"b">>,
                content |-> [type |-> "post", contentType |-> Undefined] ] >>)

----------------------------------------------------------------------------
(* The state machine *)

InitWith(locations, envs) ==
    /\ status = "loading"
    /\ data = Null
    /\ mappings = Null
    /\ siteConfiguration = Null
    /\ homepageSeo = Null
    /\ nodeEnv \in envs
    /\ location \in locations
    /\ rendered = GraphQLLoader
    /\ mappingErrors = <<>>
    /\ simplePage = Null

Envs == { "development", "production" }

\* the site is opened at its root
Init == InitWith({ [ pathname |-> <<"/">>, search |-> <<>> ] }, Envs)

\* the home query completes with d: loading ends and onCompleted stores the
\* table, the site configuration and the homepage SEO; App renders again
onCompleted(d) ==
    /\ status' = "done"
    /\ data' = Some(d)
    /\ mappings' = Some(getMappings(d))
    /\ mappingErrors' = mappingErrors \o getMappingsErrors(d)
    /\ siteConfiguration' = Some(getSiteConfiguration(d))
    /\ homepageSeo' = Some(getSeo(d.homepage.seo))
    /\ rendered' = AppRender(status', mappings', siteConfiguration', homepageSeo',
                             nodeEnv, location)
    /\ simplePage' = MountSimplePage(simplePage, rendered')
    /\ UNCHANGED <<nodeEnv, location>>

\* the result of the home query is any site of the bounded size
QueryCompleted ==
    /\ status = "loading"
    /\ \E n \in 0..MaxItems : \E nodes \in [1..n -> Nodes], home \in HomeContents :
            /\ WellFormed(nodes)
            /\ onCompleted(DataOf(home, nodes))

\* the home query fails: onCompleted is not called
QueryFailed ==
    /\ status = "loading"
    /\ status' = "error"
    /\ rendered' = AppRender(status', mappings, siteConfiguration, homepageSeo,
                             nodeEnv, location)
    /\ simplePage' = MountSimplePage(simplePage, rendered')
    /\ UNCHANGED <<data, mappings, siteConfiguration, homepageSeo, mappingErrors,
                    nodeEnv, location>>

\* the history moves to loc and App renders again
GoTo(loc) ==
    /\ location' = loc
    /\ rendered' = AppRender(status, mappings, siteConfiguration, homepageSeo,
                             nodeEnv, loc)
    /\ simplePage' = MountSimplePage(simplePage, rendered')
    /\ UNCHANGED <<appVars, nodeEnv>>

\* the reader opens another path of the site
Navigate ==
    \E loc \in PlainLocations :
        /\ loc # location
        /\ GoTo(loc)

\* the link to the next page of a listing is followed
FollowNextPage ==
    /\ rendered.component = "ListingPage"
    /\ PageNumber(location) < MaxPage
    /\ GoTo(LinkLocation(rendered.listing[1].nextPage))

\* the link to the previous page of a listing is followed
FollowPrevPage ==
    /\ rendered.component = "ListingPage"
    /\ GoTo(LinkLocation(rendered.listing[1].prevPage))

\* the author filter of a listing is changed
ChangeAuthor ==
    /\ rendered.component = "ListingPage"
    /\ \E author \in FilterValues : GoTo(setAuthor(location, author))

\* the language filter of a listing is changed
ChangeLanguage ==
    /\ rendered.component = "ListingPage"
    /\ \E language \in FilterValues : GoTo(setLanguage(location, language))

\* the resolver: the home query over every site of the bounded size
Next ==
    \/ QueryCompleted
    \/ QueryFailed

Spec == Init /\ [][Next]_vars

\* routing: smaller sites, every path of up to two slugs
RouteQueryCompleted ==
    /\ status = "loading"
    /\ \E n \in 0..MaxRouteItems : \E nodes \in [1..n -> Nodes], home \in RouteHomeContents :
            /\ WellFormed(nodes)
            /\ onCompleted(DataOf(home, nodes))

NextRoute ==
    \/ RouteQueryCompleted
    \/ QueryFailed
    \/ Navigate

SpecRoute == Init /\ [][NextRoute]_vars

\* loading, one state change at a time.  onCompleted calls three setters in
\* a row (App.js 202-204): React applies them in one render when the callback
\* runs inside its batch (onCompleted above), and renders App after each of
\* them when it does not; a render with loading false can also precede the
\* callback.  The site is opened at any path.
InitLoad == InitWith(PlainLocations, Envs)

\* useQuery returns loading false and the result; the callback has not run
ResultArrives ==
    /\ status = "loading"
    /\ \E n \in 0..MaxLoadItems : \E nodes \in [1..n -> Nodes], home \in RouteHomeContents :
            /\ WellFormed(nodes)
            /\ status' = "done"
            /\ data' = Some(DataOf(home, nodes))
            /\ rendered' = AppRender(status', mappings, siteConfiguration, homepageSeo,
                                     nodeEnv, location)
            /\ simplePage' = MountSimplePage(simplePage, rendered')
            /\ UNCHANGED <<mappings, siteConfiguration, homepageSeo, mappingErrors,
                            nodeEnv, location>>

\* setMappings(mappings), after getMappings(data) of line 199
StoreMappings ==
    /\ status = "done"
    /\ mappings = Null
    /\ mappings' = Some(getMappings(data[1]))
    /\ mappingErrors' = mappingErrors \o getMappingsErrors(data[1])
    /\ rendered' = AppRender(status, mappings', siteConfiguration, homepageSeo,
                             nodeEnv, location)
    /\ simplePage' = MountSimplePage(simplePage, rendered')
    /\ UNCHANGED <<status, data, siteConfiguration, homepageSeo, nodeEnv, location>>

\* setSiteConfiguration(siteConfiguration)
StoreSiteConfiguration ==
    /\ mappings # Null
    /\ siteConfiguration = Null
    /\ siteConfiguration' = Some(getSiteConfiguration(data[1]))
    /\ rendered' = AppRender(status, mappings, siteConfiguration', homepageSeo,
                             nodeEnv, location)
    /\ simplePage' = MountSimplePage(simplePage, rendered')
    /\ UNCHANGED <<status, data, mappings, homepageSeo, mappingErrors, nodeEnv, location>>

\* setHomepageSeo(getSeo(data.homepage._seo))
StoreHomepageSeo ==
    /\ siteConfiguration # Null
    /\ homepageSeo = Null
    /\ homepageSeo' = Some(getSeo(data[1].homepage.seo))
    /\ rendered' = AppRender(status, mappings, siteConfiguration, homepageSeo',
                             nodeEnv, location)
    /\ simplePage' = MountSimplePage(simplePage, rendered')
    /\ UNCHANGED <<status, data, mappings, siteConfiguration, mappingErrors,
                    nodeEnv, location>>

\* the callback runs inside one batch
LoadQueryCompleted ==
    /\ status = "loading"
    /\ \E n \in 0..MaxLoadItems : \E nodes \in [1..n -> Nodes], home \in RouteHomeContents :
            /\ WellFormed(nodes)
            /\ onCompleted(DataOf(home, nodes))

NextLoad ==
    \/ LoadQueryCompleted
    \/ ResultArrives
    \/ StoreMappings
    \/ StoreSiteConfiguration
    \/ StoreHomepageSeo
    \/ QueryFailed

SpecLoad == InitLoad /\ [][NextLoad]_vars

\* the query of the mounted SimplePage completes: the callback runs and
\* SimplePage renders again
SimplePageCompleted ==
    /\ simplePage # Null
    /\ simplePage[1].status = "loading"
    /\ LET current == simplePage[1]
           d       == QueryResult(current.query, current.props.codename)
           stored  == simplePageOnCompleted(current, current.props, d)
       IN  simplePage' = Some([ current EXCEPT
                                  !.status = "done",
                                  !.data   = Some(d),
                                  !.page   = stored.page,
                                  !.seo    = stored.seo,
                                  !.reads  = stored.reads,
                                  !.threw  = stored.threw,
                                  !.output = SimplePageRender("done", stored.page) ])
    /\ UNCHANGED <<appVars, nodeEnv, location, rendered>>

\* the query of the mounted SimplePage fails
SimplePageFailed ==
    /\ simplePage # Null
    /\ simplePage[1].status = "loading"
    /\ simplePage' = Some([ simplePage[1] EXCEPT
                              !.status = "error",
                              !.output = SimplePageRender("error", simplePage[1].page) ])
    /\ UNCHANGED <<appVars, nodeEnv, location, rendered>>

\* simple pages: the sites of routing, with the queries of SimplePage
NextSimple ==
    \/ RouteQueryCompleted
    \/ QueryFailed
    \/ Navigate
    \/ SimplePageCompleted
    \/ SimplePageFailed

SpecSimple == Init /\ [][NextSimple]_vars

\* the listing page of one site, opened with any query string
InitQS == InitWith(ListingLocations, { "production" })

ListingQueryCompleted ==
    /\ status = "loading"
    /\ onCompleted(ListingSite)

NextQS ==
    \/ ListingQueryCompleted
    \/ QueryFailed
    \/ FollowNextPage
    \/ FollowPrevPage
    \/ ChangeAuthor
    \/ ChangeLanguage

SpecQS == InitQS /\ [][NextQS]_vars

\* the filters of the listing page alone: the page is not turned
NextFilter ==
    \/ ListingQueryCompleted
    \/ QueryFailed
    \/ ChangeAuthor
    \/ ChangeLanguage

InitFilter == InitWith(FilterLocations, { "production" })

SpecFilter == InitFilter /\ [][NextFilter]_vars

----------------------------------------------------------------------------
(* Properties of the resolver, checked under Spec *)

Loaded == status = "done"

Site == data[1]

Table == mappings[1]

TopItems == Site.homepage.subpages

\* the collection the query fetched for a listing page, empty when it
\* fetched none for the content type the page names
FetchedItems(content) ==
    IF content.type = "listing_page" /\ content.contentType = "post"
    THEN Site.collections.post_All
    ELSE <<>>

TopPath(i) == TopItems[i].slug

SubPath(i, j) == TopItems[i].slug \o <<"/">> \o TopItems[i].subpages[j].slug

CollectionPath(i, k) ==
    TopItems[i].slug \o <<"/">> \o FetchedItems(TopItems[i].content)[k].slug

\* C1: no two distinct entries produced by the walk are assigned the same
\* path key, so no entry is overwritten by a later one.
C1_CollisionFree ==
    Loaded =>
        LET list == MappingList(Site)
        IN  \A i, j \in DOMAIN list :
                i # j => PathKey(list[i].slug) # PathKey(list[j].slug)

\* C2: the keys of the table are exactly the empty path, the slug s of every
\* top-level item, s/t for every second-level item t of s, and s/p for every
\* item p of the fetched collection when the content of s is a listing page.
C2_KeySet ==
    Loaded =>
        DOMAIN Table =
            { <<>> }
            \cup { TopPath(i) : i \in DOMAIN TopItems }
            \cup UNION { { SubPath(i, j) : j \in DOMAIN TopItems[i].subpages }
                         : i \in DOMAIN TopItems }
            \cup UNION { { CollectionPath(i, k)
                           : k \in DOMAIN FetchedItems(TopItems[i].content) }
                         : i \in DOMAIN TopItems }

\* a listing page with a fetched post has a second-level listing page of
\* its own, whose collection items get no key
C2_Witness ==
    /\ Loaded
    /\ \E i \in DOMAIN TopItems :
        /\ Len(FetchedItems(TopItems[i].content)) > 0
        /\ \E j \in DOMAIN TopItems[i].subpages :
            /\ TopItems[i].subpages[j].content.type = "listing_page"
            /\ SubPath(i, j) \in DOMAIN Table
            /\ CollectionPath(i, 1) \in DOMAIN Table
            /\ SubPath(i, j) # CollectionPath(i, 1)
            /\ SubPath(i, j) \o <<"/">> \o Site.collections.post_All[1].slug
                   \notin DOMAIN Table

\* what the table is to hold for the homepage, a navigation item, a post
HomepageEntry ==
    [ navigationCodename |-> "homepage",
      navigationType     |-> "homepage",
      contentCodename    |-> Site.homepage.content.codename,
      contentType        |-> Site.homepage.content.type ]

NavigationEntry(item) ==
    [ navigationCodename |-> item.codename,
      navigationType     |-> "navigationItem",
      contentCodename    |-> item.content.codename,
      contentType        |-> item.content.type ]

PostEntry(item) ==
    [ navigationCodename |-> item.codename,
      navigationType     |-> "post",
      contentCodename    |-> item.codename,
      contentType        |-> "post" ]

\* the entries of the items whose path is k
EntriesAt(k) ==
    ( IF k = <<>> THEN { HomepageEntry } ELSE {} )
    \cup { NavigationEntry(TopItems[i]) : i \in { i \in DOMAIN TopItems : TopPath(i) = k } }
    \cup UNION { { NavigationEntry(TopItems[i].subpages[j])
                   : j \in { j \in DOMAIN TopItems[i].subpages : SubPath(i, j) = k } }
                 : i \in DOMAIN TopItems }
    \cup UNION { { PostEntry(FetchedItems(TopItems[i].content)[n])
                   : n \in { n \in DOMAIN FetchedItems(TopItems[i].content)
                                : CollectionPath(i, n) = k } }
                 : i \in DOMAIN TopItems }

\* C4: every entry of the table is the typed content reference of an item
\* with that path: a post gives navigationType and contentType "post" and its
\* codename twice, another item gives navigationType "navigationItem", its
\* codename and the codename and type of its content, the homepage gives
\* navigationType and navigationCodename "homepage" and its content's
\* codename and type.
C4_TypedEntries ==
    Loaded => \A k \in DOMAIN Table : Table[k] \in EntriesAt(k)

\* a table holding the homepage, a navigation item and a post
C4_Witness ==
    /\ Loaded
    /\ Table[<<>>] = HomepageEntry
    /\ \E k \in DOMAIN Table : Table[k].navigationType = "navigationItem"
    /\ \E k \in DOMAIN Table :
        /\ Table[k].navigationType = "post"
        /\ Table[k].contentCodename = Table[k].navigationCodename

\* C6: the empty path resolves to the homepage entry whatever the items are,
\* and exactly one entry of the table has navigationType "homepage".
C6_EmptyPathIsHomepage ==
    Loaded =>
        /\ Table[<<>>].navigationType = "homepage"
        /\ Table[<<>>].navigationCodename = "homepage"
        /\ Cardinality({ k \in DOMAIN Table : Table[k].navigationType = "homepage" }) = 1

\* a top-level item whose content is a listing page of a content type the
\* query fetched no collection for
Unfetched(i) ==
    /\ TopItems[i].content.type = "listing_page"
    /\ TopItems[i].content.contentType # "post"

\* what the walk is to push for the top-level item i: the item, its
\* second-level items, the items of its fetched collection
PushesOf(i) ==
    << [ path |-> TopPath(i), entry |-> NavigationEntry(TopItems[i]) ] >>
    \o [ j \in DOMAIN TopItems[i].subpages |->
            [ path |-> SubPath(i, j), entry |-> NavigationEntry(TopItems[i].subpages[j]) ] ]
    \o [ k \in DOMAIN FetchedItems(TopItems[i].content) |->
            [ path  |-> CollectionPath(i, k),
              entry |-> PostEntry(FetchedItems(TopItems[i].content)[k]) ] ]

RECURSIVE PushesFrom(_)
PushesFrom(i) ==
    IF i > Len(TopItems) THEN <<>> ELSE PushesOf(i) \o PushesFrom(i + 1)

\* C13: when a top-level listing page names a collection the query result
\* does not hold, getMappings reports one error for it and pushes no
\* collection entry for it, and the table is the one made of the homepage,
\* that item, its second-level items and the full pushes of every other
\* item, those after it included.
C13_UnknownListing ==
    ( Loaded /\ \E i \in DOMAIN TopItems : Unfetched(i) ) =>
        LET pushes == << [ path |-> <<>>, entry |-> HomepageEntry ] >> \o PushesFrom(1)
        IN  /\ Len(mappingErrors) = Cardinality({ i \in DOMAIN TopItems : Unfetched(i) })
            /\ \A i \in DOMAIN TopItems :
                    Unfetched(i) =>
                        \E n \in DOMAIN mappingErrors :
                            mappingErrors[n] = "Unknown listing page content type: "
                                                  \o TopItems[i].content.contentType
            /\ DOMAIN Table = { pushes[n].path : n \in DOMAIN pushes }
            /\ \A n \in DOMAIN pushes :
                    ( \A m \in DOMAIN pushes : m > n => pushes[m].path # pushes[n].path )
                        => Table[pushes[n].path] = pushes[n].entry

\* a listing page of an unfetched collection is followed by a listing page
\* of the fetched one: the error is reported, the second page and its post
\* are in the table, and the post has no key under the first page
C13_Witness ==
    /\ Loaded
    /\ Len(TopItems) = 2
    /\ Unfetched(1)
    /\ Len(FetchedItems(TopItems[2].content)) = 1
    /\ TopPath(1) # TopPath(2)
    /\ mappingErrors = << "Unknown listing page content type: event" >>
    /\ Table[TopPath(1)] = NavigationEntry(TopItems[1])
    /\ Table[TopPath(2)] = NavigationEntry(TopItems[2])
    /\ Table[CollectionPath(2, 1)].navigationType = "post"
    /\ TopPath(1) \o <<"/">> \o Site.collections.post_All[1].slug \notin DOMAIN Table

----------------------------------------------------------------------------
(* Properties of routing, checked under SpecRoute *)

\* the key the location's pathname stands for: every pathname of the model
\* begins with a slash
LocationKey == Tail(location.pathname)

Routed == Loaded /\ LocationKey \in DOMAIN Table

RoutedEntry == Table[LocationKey]

\* C5: the renderer follows from the contentType of the table entry alone:
\* landing_page gives LandingPage, listing_page ListingPage, simple_page
\* SimplePage, post Post; a path without an entry gives "Not found"; any
\* other contentType gives the unknown-component output in development and
\* nothing in production.
C5_RendererByContentType ==
    Loaded =>
        IF ~Routed THEN rendered.component = "NotFound"
        ELSE rendered.component =
                CASE RoutedEntry.contentType = "landing_page" -> "LandingPage"
                  [] RoutedEntry.contentType = "listing_page" -> "ListingPage"
                  [] RoutedEntry.contentType = "simple_page"  -> "SimplePage"
                  [] RoutedEntry.contentType = "post"         -> "Post"
                  [] OTHER -> IF nodeEnv = "development" THEN "UnknownComponent"
                              ELSE "null"

\* a post of a listing page is rendered at its two-slug path
C5_Witness ==
    /\ Routed
    /\ RoutedEntry.contentType = "post"
    /\ rendered.component = "Post"
    /\ location.pathname # <<"/">>

\* C7: LandingPage and SimplePage get the contentCodename and the homepage
\* SEO for the homepage entry and the navigationCodename otherwise; Post gets
\* the contentCodename; ListingPage gets the navigationCodename, for the
\* homepage entry too; the seo prop is passed for the homepage entry only.
C7_CodenameByOrigin ==
    Routed =>
        LET isHomepage == RoutedEntry.navigationType = "homepage"
        IN  /\ rendered.component \in { "LandingPage", "SimplePage" } =>
                rendered.codename =
                    Some(IF isHomepage THEN RoutedEntry.contentCodename
                         ELSE RoutedEntry.navigationCodename)
            /\ rendered.component = "Post" =>
                rendered.codename = Some(RoutedEntry.contentCodename)
            /\ rendered.component = "ListingPage" =>
                rendered.codename = Some(RoutedEntry.navigationCodename)
            /\ rendered.component \in Renderers =>
                rendered.seo = IF isHomepage THEN homepageSeo ELSE Null

\* the homepage is a listing page: it is rendered under the codename
\* "homepage" and with the homepage SEO
C7_Witness ==
    /\ Routed
    /\ RoutedEntry.navigationType = "homepage"
    /\ rendered.component = "ListingPage"
    /\ rendered.codename = Some("homepage")
    /\ rendered.codename # Some(RoutedEntry.contentCodename)
    /\ rendered.seo = homepageSeo

----------------------------------------------------------------------------
(* Properties of the query-string codec, checked under SpecQS and, for the  *)
(* filters, under SpecFilter                                              *)

Listed == rendered.component = "ListingPage"

Listing == rendered.listing[1]

\* the page a location is on: the integer read from its page parameter when
\* that is greater than 0, and 1 otherwise
PageOf(loc) ==
    LET read == parseInt(ParamsGet(URLSearchParams(loc.search), pageQueryStringKey))
    IN  IF read = Null THEN 1 ELSE IF read[1] > 0 THEN read[1] ELSE 1

\* the pairs of a query string that are not the page
OtherParams(search) ==
    SelectSeq(URLSearchParams(search), LAMBDA pair : pair.name # pageQueryStringKey)

PagePairs(search) ==
    SelectSeq(URLSearchParams(search), LAMBDA pair : pair.name = pageQueryStringKey)

\* C8: limit is 3 and offset is (p - 1) * 3 for the page p of the location,
\* so offset is never negative and is a multiple of the page size.
C8_LimitAndOffset ==
    Listed =>
        /\ Listing.limit = 3
        /\ Listing.offset = (PageOf(location) - 1) * 3
        /\ Listing.offset >= 0
        /\ Listing.offset % 3 = 0

\* page 10, reached from page 9 by the link to the next page
C8_Witness ==
    /\ Listed
    /\ PagePairs(location.search) = << [ name |-> pageQueryStringKey, value |-> <<"1", "0">> ] >>
    /\ Listing.offset = 27

Max(a, b) == IF a > b THEN a ELSE b

\* C9: nextPage carries page = p + 1 and prevPage page = max(p - 1, 1); both
\* keep the pathname and every other parameter with its value; each holds one
\* page parameter, and prevPage does not hold the page written for nextPage.
C9_PageLinks ==
    Listed =>
        LET p    == PageOf(location)
            next == LinkLocation(Listing.nextPage)
            prev == LinkLocation(Listing.prevPage)
        IN  /\ next.pathname = location.pathname
            /\ prev.pathname = location.pathname
            /\ PagePairs(next.search) =
                   << [ name |-> pageQueryStringKey, value |-> NumberToString(p + 1) ] >>
            /\ PagePairs(prev.search) =
                   << [ name |-> pageQueryStringKey, value |-> NumberToString(Max(p - 1, 1)) ] >>
            /\ OtherParams(next.search) = OtherParams(location.search)
            /\ OtherParams(prev.search) = OtherParams(location.search)
            /\ \A i \in DOMAIN URLSearchParams(prev.search) :
                   URLSearchParams(prev.search)[i] #
                       [ name |-> pageQueryStringKey, value |-> NumberToString(p + 1) ]

\* a location on page 1 with an author holding a blank and a page parameter
\* that does not read as a positive number
C9_Witness ==
    /\ Listed
    /\ PageOf(location) = 1
    /\ Len(PagePairs(location.search)) > 0
    /\ getAuthor(location) = <<"x", " ", "y">>
    /\ LinkLocation(Listing.prevPage).search # LinkLocation(Listing.nextPage).search

\* C10: the nextPage link leads to page p + 1 and an offset greater by 3; the
\* prevPage link of that location leads back to page p with the same author;
\* for p >= 2 the nextPage link of the prevPage location leads to page p; on
\* page 1 the prevPage link stays on page 1.
C10_RoundTrip ==
    Listed =>
        LET p        == PageOf(location)
            next     == LinkLocation(Listing.nextPage)
            atNext   == getListingPaginationAndFilter(next)
            back     == LinkLocation(atNext.prevPage)
            prev     == LinkLocation(Listing.prevPage)
            atPrev   == getListingPaginationAndFilter(prev)
            forth    == LinkLocation(atPrev.nextPage)
        IN  /\ PageOf(next) = p + 1
            /\ atNext.offset = Listing.offset + 3
            /\ PageOf(back) = p
            /\ getListingPaginationAndFilter(back).author = Listing.author
            /\ p >= 2 => PageOf(forth) = p
            /\ p = 1 => PageOf(prev) = 1

\* page 10 with an author filter: next is 11, back is 10, and back from 10
\* and forth again is 10
C10_Witness ==
    /\ Listed
    /\ PageOf(location) = 10
    /\ Listing.author = Some(<<"x", " ", "y">>)
    /\ PageOf(LinkLocation(Listing.nextPage)) = 11
    /\ PageOf(LinkLocation(Listing.prevPage)) = 9

\* the pairs of parsed parameters under a key
PairsOf(params, key) == SelectSeq(params, LAMBDA pair : pair.name = key)

\* the pairs of parsed parameters under the other keys, in their order
PairsExcept(params, key) == SelectSeq(params, LAMBDA pair : pair.name # key)

\* C11: for a non-empty value v, getAuthor(setAuthor(location, v)) = v and
\* getLanguage(setLanguage(location, v)) = v; an empty value removes the key
\* and the getter returns the empty string; setting the same value a second
\* time gives the location of the first time.
C11_FilterRoundTrip ==
    \A v \in FilterValues :
        LET byAuthor   == setAuthor(location, v)
            byLanguage == setLanguage(location, v)
        IN  /\ Len(v) > 0 => /\ getAuthor(byAuthor) = v
                              /\ getLanguage(byLanguage) = v
            /\ Len(v) = 0 =>
                    /\ getAuthor(byAuthor) = <<>>
                    /\ getLanguage(byLanguage) = <<>>
                    /\ PairsOf(URLSearchParams(byAuthor.search), authorQueryStringKey) = <<>>
                    /\ PairsOf(URLSearchParams(byLanguage.search), languageQueryStringKey) = <<>>
            /\ setAuthor(byAuthor, v) = byAuthor
            /\ setLanguage(byLanguage, v) = byLanguage

\* the language was set to a value with a blank, which no starting location
\* holds, on a location that holds an author written with a + sign
C11_Witness ==
    /\ Listed
    /\ getLanguage(location) = <<"x", " ", "y">>
    /\ PairsOf(URLSearchParams(location.search), languageQueryStringKey) =
           << [ name |-> languageQueryStringKey, value |-> <<"x", " ", "y">> ] >>
    /\ getAuthor(location) = <<"x", " ", "y">>

\* C12: the location setAuthor or setLanguage returns keeps the pathname, and
\* every parameter under another key keeps its value and its place among the
\* others; the page and the other filter read as before.
C12_OnlyOwnKey ==
    LET before == URLSearchParams(location.search)
    IN  \A v \in FilterValues :
            LET byAuthor     == setAuthor(location, v)
                byLanguage   == setLanguage(location, v)
                authorSet    == URLSearchParams(byAuthor.search)
                languageSet  == URLSearchParams(byLanguage.search)
            IN  /\ byAuthor.pathname = location.pathname
                /\ byLanguage.pathname = location.pathname
                /\ PairsExcept(authorSet, authorQueryStringKey) =
                       PairsExcept(before, authorQueryStringKey)
                /\ PairsExcept(languageSet, languageQueryStringKey) =
                       PairsExcept(before, languageQueryStringKey)
                /\ ParamsGet(authorSet, pageQueryStringKey) =
                       ParamsGet(before, pageQueryStringKey)
                /\ ParamsGet(languageSet, pageQueryStringKey) =
                       ParamsGet(before, pageQueryStringKey)
                /\ ParamsGet(authorSet, languageQueryStringKey) =
                       ParamsGet(before, languageQueryStringKey)
                /\ ParamsGet(languageSet, authorQueryStringKey) =
                       ParamsGet(before, authorQueryStringKey)

\* the author was set to a value no starting location holds, on page 9 with a
\* language filter
C12_Witness ==
    /\ Listed
    /\ getAuthor(location) = <<"e", "n">>
    /\ PageOf(location) = 9
    /\ getLanguage(location) = <<"e", "n">>
    /\ Len(URLSearchParams(location.search)) = 3

----------------------------------------------------------------------------
(* Properties of loading, checked under SpecLoad *)

\* App returned something else than the loader: the router and renderPage ran
PageRendered == rendered # GraphQLLoader

\* C14: while the home query is loading or has failed, or one of the mapping
\* table, the site configuration and the homepage SEO is still null, App
\* returns the loader only; so whenever renderPage has run, the table and the
\* site configuration are stored.
C14_LoaderUntilStored ==
    /\ ( status \in { "loading", "error" }
         \/ mappings = Null \/ siteConfiguration = Null \/ homepageSeo = Null )
            => ~PageRendered
    /\ PageRendered => /\ status = "done"
                       /\ mappings # Null
                       /\ siteConfiguration # Null
                       /\ homepageSeo # Null

\* in the middle of the callback: the table holds the location's path and
\* the site configuration is stored, the homepage SEO is not yet
C14_Witness ==
    /\ status = "done"
    /\ mappings # Null
    /\ Tail(location.pathname) \in DOMAIN mappings[1]
    /\ Len(location.pathname) > 1
    /\ siteConfiguration # Null
    /\ homepageSeo = Null
    /\ ~PageRendered

----------------------------------------------------------------------------
(* Properties of SimplePage, checked under SpecSimple *)

\* C15: once the query of a SimplePage has completed, a supplied seo prop
\* means that the simplePage query was issued, the page is the simplePage of
\* its data and the SEO is the prop; no seo prop means that the
\* navigationItem query was issued and the page and the SEO are the content
\* and the _seo of the navigationItem of its data; and the callback threw
\* nothing and read only fields the issued query returns.
C15_HandlingMatchesQuery ==
    ( simplePage # Null /\ simplePage[1].status = "done" ) =>
        LET page == simplePage[1]
        IN  /\ "seo" \in DOMAIN page.props =>
                    /\ page.query = simplePageQuery
                    /\ page.page = Some(page.data[1].simplePage)
                    /\ page.seo = [ source |-> "props", argument |-> Some(page.props.seo) ]
            /\ "seo" \notin DOMAIN page.props =>
                    /\ page.query = navigationAndSimplePageQuery
                    /\ page.page = Some(page.data[1].navigationItem["content"])
                    /\ page.seo = [ source   |-> "getSeo",
                                    argument |-> Some(page.data[1].navigationItem["_seo"]) ]
            /\ ~page.threw
            /\ page.reads \subseteq ReturnedFields(page.query)

====
